---- MODULE Spec2Model ----
(***************************************************************************)
(* Model of the two HTTP handlers of the RFP service:                      *)
(*   - generate_multiple_rfp_sections (POST /multi, src/main_flask.py)     *)
(*   - generate_rfp_response          (cloud function, src/main.py)        *)
(* One request is followed from its arrival to its response.  Every call   *)
(* to an external collaborator is one step whose outcome (a value or an    *)
(* exception) is chosen by the environment.  A Python str is the sequence   *)
(* of its code points (ord of each character), so len(), strip() and       *)
(* split() are computed.                                                   *)
(***************************************************************************)
EXTENDS Integers, Sequences, FiniteSets

\* ------------------------------------------------------------------ bounds
MaxRows == 2
MaxTextLen == 3

\* ------------------------------------------------------- Python values
\* None, as returned by dict.get for an absent key and by get_json(silent=True).
NoneVal == "<None>"

\* not v, for the values a field can take here (None or a string).
Falsy(v) == v = NoneVal \/ v = ""

\* ord("\n"), the separator of split and the character appended to texts.
LF == 10

\* Characters str.strip() removes when called without arguments: the code
\* points c with chr(c).isspace(), which are \t \n \v \f \r, U+001C..U+001F,
\* space, U+0085, U+00A0, U+1680, U+2000..U+200A, U+2028, U+2029, U+202F,
\* U+205F and U+3000.
Whitespace ==
  (9..13) \cup (28..32) \cup {133, 160, 5760} \cup (8192..8202)
  \cup {8232, 8233, 8239, 8287, 12288}

\* "a", " " and "\n"
Alphabet == {97, 32, LF}

SeqsUpTo(S, n) == UNION {[1..k -> S] : k \in 0..n}

\* "Security\nWe comply."
ExampleContent ==
  <<83, 101, 99, 117, 114, 105, 116, 121, LF,
    87, 101, 32, 99, 111, 109, 112, 108, 121, 46>>

\* " aa \n\n a a\n": whitespace around the text, the heading and the body.
PaddedContent == <<32, 97, 97, 32, LF, LF, 32, 97, 32, 97, LF>>

\* "\fa\u00a0\n\u2028b\vc\u3000": whitespace other than space, tab and line
\* ends around the text, the heading and the body, and one inside the body.
UnicodePaddedContent == <<12, 97, 160, LF, 8232, 98, 11, 99, 12288>>

\* What message.content of the chat completion can be.
Contents ==
  SeqsUpTo(Alphabet, MaxTextLen)
  \cup {ExampleContent, PaddedContent, UnicodePaddedContent}

\* endIndex of the last structural element of the target document.
DocEndIndexes == {2, 5, 101}

RECURSIVE LStrip(_)
LStrip(s) ==
  IF s = <<>> THEN s
  ELSE IF Head(s) \in Whitespace THEN LStrip(Tail(s)) ELSE s

RECURSIVE RStrip(_)
RStrip(s) ==
  IF s = <<>> THEN s
  ELSE IF s[Len(s)] \in Whitespace THEN RStrip(SubSeq(s, 1, Len(s) - 1)) ELSE s

\* str.strip()
Strip(s) == RStrip(LStrip(s))

\* Position of the first "\n" of s, 0 when there is none.
FirstNewline(s) ==
  IF \E k \in 1..Len(s) : s[k] = LF
  THEN CHOOSE k \in 1..Len(s) : s[k] = LF /\ \A j \in 1..(k - 1) : s[j] # LF
  ELSE 0

\* text.split("\n", 1)
SplitLines(s) ==
  LET k == FirstNewline(s)
  IN IF k = 0 THEN <<s>>
     ELSE <<SubSeq(s, 1, k - 1), SubSeq(s, k + 1, Len(s))>>

\* heading = lines[0].strip()
HeadingOf(s) == Strip(SplitLines(s)[1])

\* body = lines[1].strip() if len(lines) > 1 else ""
BodyOf(s) == IF Len(SplitLines(s)) > 1 THEN Strip(SplitLines(s)[2]) ELSE <<>>

\* --------------------------------------------------------------- inputs
FieldValues == {NoneVal, "", "x"}

\* The request body as get_json(silent=True) returns it: None (no or invalid
\* JSON), a falsy value ({} [] 0 ""), a truthy value that is no object ([1],
\* "abc", 5) or an object, whose three required fields are given by f1..f3.
Payloads ==
  {[kind |-> k, f1 |-> NoneVal, f2 |-> NoneVal, f3 |-> NoneVal] :
      k \in {"none", "falsy", "nonobject"}}
  \cup [kind : {"object"}, f1 : FieldValues, f2 : FieldValues, f3 : FieldValues]

\* A record of sheet.get_all_records(), read with row.get.
Rows == [Requirement : {NoneVal, "", "R"}, Response : {NoneVal, "", "B"}]

RowLists == SeqsUpTo(Rows, MaxRows)

\* ------------------------------------------------------------ responses
NoResp == [status |-> 0, json |-> FALSE, msg |-> ""]

\* return jsonify({"error": msg}), status
JsonError(status, m) == [status |-> status, json |-> TRUE, msg |-> m]

\* return jsonify({"status": "ok", "message": msg}), 200
JsonOk(m) == [status |-> 200, json |-> TRUE, msg |-> m]

\* An exception no handler code catches: the framework answers 500 with its
\* own error page, not with a JSON error object of the service.
Unhandled == [status |-> 500, json |-> FALSE, msg |-> "unhandled exception"]

Call(name, ok) == [name |-> name, ok |-> ok]

\* ----------------------------------------------------- edit operations
InsertText(index, txt) == [type |-> "insertText", index |-> index, text |-> txt]

\* Mutant: the styled range stops before the heading's newline.
HeadingRangeEnd_NoNewline(index, h) == index + Len(h)

\* end of the styled range: end_index + len(heading) + 1
HeadingRangeEnd(index, h) == index + Len(h) + 1

UpdateParagraphStyle(index, h) ==
  [type |-> "updateParagraphStyle", startIndex |-> index,
   endIndex |-> HeadingRangeEnd(index, h), namedStyleType |-> "HEADING_2"]

\* end_index += 1
AfterNewline(index) == index + 1

\* Mutant: the cursor forgets the newline appended to the heading.
AfterHeading_NoNewline(index, h) == index + Len(h)

\* end_index += len(heading) + 1
AfterHeading(index, h) == index + Len(h) + 1

\* Mutant: the cursor counts one of the two newlines after the body.
AfterBody_OneNewline(index, b) == index + Len(b) + 1

\* end_index += len(body) + 2
AfterBody(index, b) == index + Len(b) + 2

HeadingText(h) == h \o <<LF>>

BodyText(b) == b \o <<LF, LF>>

\* Mutant: a row is skipped only when both fields are falsy.
RowSkipped_Both(row) == Falsy(row.Requirement) /\ Falsy(row.Response)

\* if not requirement or not base_response: continue
RowSkipped(row) == Falsy(row.Requirement) \/ Falsy(row.Response)

\* not all([f1, f2, f3])
FieldsMissing(data) == ~(~Falsy(data.f1) /\ ~Falsy(data.f2) /\ ~Falsy(data.f3))

\* ---------------------------------------------------------------- state
VARIABLES
  handler,    \* "multi" (main_flask.py) or "single" (main.py)
  data,       \* request.get_json(silent=True)
  api_key,    \* whether OPENAI_API_KEY is set
  pc,         \* position of the handler
  rows,       \* rows read from the sheet
  i,          \* 1-based position of the for loop in rows
  doc_end,    \* doc['body']['content'][-1]['endIndex'] as returned by get
  end_index,  \* the cursor
  requests,   \* the batch under construction
  text,       \* stripped completion of the current row
  heading,    \* heading of the current row
  body,       \* body of the current row
  sections,   \* history: <<heading, body>> of every row split so far
  calls,      \* history: collaborator calls made, with their outcome
  submitted,  \* history: the "requests" bodies passed to batchUpdate
  resp        \* the response returned, NoResp while running

vars == <<handler, data, api_key, pc, rows, i, doc_end, end_index, requests,
          text, heading, body, sections, calls, submitted, resp>>

locals == <<rows, i, doc_end, end_index, requests, text, heading, body, sections>>

Init ==
  /\ handler \in {"multi", "single"}
  /\ data \in Payloads
  /\ api_key \in BOOLEAN
  /\ pc = "validate"
  /\ rows = <<>>
  /\ i = 0
  /\ doc_end = 0
  /\ end_index = 0
  /\ requests = <<>>
  /\ text = <<>>
  /\ heading = <<>>
  /\ body = <<>>
  /\ sections = <<>>
  /\ calls = <<>>
  /\ submitted = <<>>
  /\ resp = NoResp

\* return ..., status
Return(r) == pc' = "done" /\ resp' = r

\* ------------------------------------------ /multi (src/main_flask.py)
\* Lines 40-53: payload, required fields, OPENAI_API_KEY.
Validate ==
  /\ handler = "multi" /\ pc = "validate"
  /\ IF data.kind \in {"none", "falsy"}
       THEN Return(JsonError(400, "Missing JSON payload"))
     ELSE IF data.kind = "nonobject"
       THEN Return(Unhandled)      \* data.get raises AttributeError
     ELSE IF FieldsMissing(data)
       THEN Return(JsonError(400, "Missing required fields"))
     ELSE IF ~api_key
       THEN Return(JsonError(500, "OPENAI_API_KEY not set"))
     ELSE pc' = "sheet" /\ resp' = resp
  /\ UNCHANGED <<handler, data, api_key, locals, calls, submitted>>

\* Lines 60-63: rows = get_sheets_data(sheet_id, tab_name)
ReadSheet ==
  /\ handler = "multi" /\ pc = "sheet"
  /\ \/ /\ calls' = Append(calls, Call("get_all_records", FALSE))
        /\ Return(JsonError(500, "Failed to read sheet"))
        /\ rows' = rows
     \/ /\ calls' = Append(calls, Call("get_all_records", TRUE))
        /\ rows' \in RowLists
        /\ pc' = "index" /\ resp' = resp
  /\ UNCHANGED <<handler, data, api_key, i, doc_end, end_index, requests,
                 text, heading, body, sections, submitted>>

\* Lines 65-71: the faiss_index folder check and FAISS.load_local
LoadIndex ==
  /\ handler = "multi" /\ pc = "index"
  /\ \/ /\ calls' = calls
        /\ Return(JsonError(500, "FAISS index folder not found"))
     \/ /\ calls' = Append(calls, Call("load_local", FALSE))
        /\ Return(JsonError(500, "Failed to load FAISS index"))
     \/ /\ calls' = Append(calls, Call("load_local", TRUE))
        /\ pc' = "doc" /\ resp' = resp
  /\ UNCHANGED <<handler, data, api_key, locals, submitted>>

\* Lines 73-79: documents().get and the initial cursor
GetDoc ==
  /\ handler = "multi" /\ pc = "doc"
  /\ \/ /\ calls' = Append(calls, Call("documents.get", FALSE))
        /\ Return(JsonError(500, "Failed to load or write to Google Doc"))
        /\ UNCHANGED <<doc_end, end_index, i>>
     \/ /\ calls' = Append(calls, Call("documents.get", TRUE))
        /\ doc_end' \in DocEndIndexes
        /\ end_index' = doc_end' - 1
        /\ i' = 1
        /\ pc' = "loop" /\ resp' = resp
  /\ requests' = <<>>
  /\ UNCHANGED <<handler, data, api_key, rows, text, heading, body,
                 sections, submitted>>

\* Lines 82-86: next row of the for loop, skipped when a field is falsy
NextRow ==
  /\ handler = "multi" /\ pc = "loop"
  /\ IF i > Len(rows) THEN pc' = "after" /\ i' = i
     ELSE IF RowSkipped(rows[i]) THEN pc' = "loop" /\ i' = i + 1
     ELSE pc' = "search" /\ i' = i
  /\ UNCHANGED <<handler, data, api_key, rows, doc_end, end_index, requests,
                 text, heading, body, sections, calls, submitted, resp>>

\* Mutant: a failed search skips the row instead of ending the request.
Search_SkipRow ==
  /\ handler = "multi" /\ pc = "search"
  /\ \/ /\ calls' = Append(calls, Call("similarity_search", FALSE))
        /\ pc' = "loop" /\ i' = i + 1 /\ resp' = resp
     \/ /\ calls' = Append(calls, Call("similarity_search", TRUE))
        /\ pc' = "chat" /\ i' = i /\ resp' = resp
  /\ UNCHANGED <<handler, data, api_key, rows, doc_end, end_index, requests,
                 text, heading, body, sections, submitted>>

\* Lines 88-91: vectorstore.similarity_search(requirement, k=3)
Search ==
  /\ handler = "multi" /\ pc = "search"
  /\ \/ /\ calls' = Append(calls, Call("similarity_search", FALSE))
        /\ Return(JsonError(500, "Vector search failed"))
     \/ /\ calls' = Append(calls, Call("similarity_search", TRUE))
        /\ pc' = "chat" /\ resp' = resp
  /\ UNCHANGED <<handler, data, api_key, locals, submitted>>

\* Lines 113-121: client.chat.completions.create and content.strip()
Chat ==
  /\ handler = "multi" /\ pc = "chat"
  /\ \/ /\ calls' = Append(calls, Call("chat.completions", FALSE))
        /\ Return(JsonError(500, "OpenAI call failed"))
        /\ text' = text
     \/ /\ calls' = Append(calls, Call("chat.completions", TRUE))
        /\ \E content \in Contents : text' = Strip(content)
        /\ pc' = "split" /\ resp' = resp
  /\ UNCHANGED <<handler, data, api_key, rows, i, doc_end, end_index, requests,
                 heading, body, sections, submitted>>

\* Lines 124-126: heading and body of the completion
SplitText ==
  /\ handler = "multi" /\ pc = "split"
  /\ heading' = HeadingOf(text)
  /\ body' = BodyOf(text)
  /\ sections' = Append(sections, <<heading', body'>>)
  /\ pc' = "newline"
  /\ UNCHANGED <<handler, data, api_key, rows, i, doc_end, end_index, requests,
                 text, calls, submitted, resp>>

\* Lines 128-134: the blank line before the section
AppendNewline ==
  /\ handler = "multi" /\ pc = "newline"
  /\ requests' = Append(requests, InsertText(end_index, <<LF>>))
  /\ end_index' = AfterNewline(end_index)
  /\ pc' = "heading"
  /\ UNCHANGED <<handler, data, api_key, rows, i, doc_end, text, heading, body,
                 sections, calls, submitted, resp>>

\* Mutant: the style request is appended before the heading it styles.
AppendHeading_StyleFirst ==
  /\ handler = "multi" /\ pc = "heading"
  /\ requests' = requests \o <<UpdateParagraphStyle(end_index, heading),
                               InsertText(end_index, HeadingText(heading))>>
  /\ end_index' = AfterHeading(end_index, heading)
  /\ pc' = "body"
  /\ UNCHANGED <<handler, data, api_key, rows, i, doc_end, text, heading, body,
                 sections, calls, submitted, resp>>

\* Lines 136-154: the heading and its HEADING_2 style
AppendHeading ==
  /\ handler = "multi" /\ pc = "heading"
  /\ requests' = requests \o <<InsertText(end_index, HeadingText(heading)),
                               UpdateParagraphStyle(end_index, heading)>>
  /\ end_index' = AfterHeading(end_index, heading)
  /\ pc' = "body"
  /\ UNCHANGED <<handler, data, api_key, rows, i, doc_end, text, heading, body,
                 sections, calls, submitted, resp>>

\* Lines 156-162: the body, then on to the next row
AppendBody ==
  /\ handler = "multi" /\ pc = "body"
  /\ requests' = Append(requests, InsertText(end_index, BodyText(body)))
  /\ end_index' = AfterBody(end_index, body)
  /\ i' = i + 1
  /\ pc' = "loop"
  /\ UNCHANGED <<handler, data, api_key, rows, doc_end, text, heading, body,
                 sections, calls, submitted, resp>>

\* Mutant: the empty batch is submitted like any other.
CheckBatch_NoEmptyCheck ==
  /\ handler = "multi" /\ pc = "after"
  /\ pc' = "batch" /\ resp' = resp
  /\ UNCHANGED <<handler, data, api_key, locals, calls, submitted>>

\* Lines 164-165: nothing to submit
CheckBatch ==
  /\ handler = "multi" /\ pc = "after"
  /\ IF requests = <<>>
       THEN Return(JsonError(400, "No valid rows to process"))
       ELSE pc' = "batch" /\ resp' = resp
  /\ UNCHANGED <<handler, data, api_key, locals, calls, submitted>>

\* Mutant: the failure of batchUpdate is swallowed.
BatchUpdate_IgnoreFailure ==
  /\ handler = "multi" /\ pc = "batch"
  /\ submitted' = Append(submitted, requests)
  /\ \/ /\ calls' = Append(calls, Call("batchUpdate", FALSE))
        /\ Return(JsonOk("All sections inserted"))
     \/ /\ calls' = Append(calls, Call("batchUpdate", TRUE))
        /\ Return(JsonOk("All sections inserted"))
  /\ UNCHANGED <<handler, data, api_key, locals>>

\* Lines 167-172: the one batchUpdate and the final response
BatchUpdate ==
  /\ handler = "multi" /\ pc = "batch"
  /\ submitted' = Append(submitted, requests)
  /\ \/ /\ calls' = Append(calls, Call("batchUpdate", FALSE))
        /\ Return(JsonError(500, "Failed to update Google Doc"))
     \/ /\ calls' = Append(calls, Call("batchUpdate", TRUE))
        /\ Return(JsonOk("All sections inserted"))
  /\ UNCHANGED <<handler, data, api_key, locals>>

\* ------------------------------- generate_rfp_response (src/main.py)
\* Lines 19-32: payload, required fields, OPENAI_API_KEY.
SingleValidate ==
  /\ handler = "single" /\ pc = "validate"
  /\ IF data.kind \in {"none", "falsy"}
       THEN Return(JsonError(400, "Missing JSON payload"))
     ELSE IF data.kind = "nonobject"
       THEN Return(Unhandled)      \* data.get raises AttributeError
     ELSE IF FieldsMissing(data)
       THEN Return(JsonError(400, "Missing required fields"))
     ELSE IF ~api_key
       THEN Return(JsonError(500, "OPENAI_API_KEY not set in environment"))
     ELSE pc' = "index" /\ resp' = resp
  /\ UNCHANGED <<handler, data, api_key, locals, calls, submitted>>

\* Lines 34-38: FAISS.load_local, outside any try
SingleLoadIndex ==
  /\ handler = "single" /\ pc = "index"
  /\ \/ /\ calls' = Append(calls, Call("load_local", FALSE))
        /\ Return(Unhandled)
     \/ /\ calls' = Append(calls, Call("load_local", TRUE))
        /\ pc' = "search" /\ resp' = resp
  /\ UNCHANGED <<handler, data, api_key, locals, submitted>>

\* Line 40: vectorstore.similarity_search(requirement, k=3)
SingleSearch ==
  /\ handler = "single" /\ pc = "search"
  /\ \/ /\ calls' = Append(calls, Call("similarity_search", FALSE))
        /\ Return(Unhandled)
     \/ /\ calls' = Append(calls, Call("similarity_search", TRUE))
        /\ pc' = "chat" /\ resp' = resp
  /\ UNCHANGED <<handler, data, api_key, locals, submitted>>

\* Lines 61-67: openai.ChatCompletion.create and content.strip()
SingleChat ==
  /\ handler = "single" /\ pc = "chat"
  /\ \/ /\ calls' = Append(calls, Call("chat.completions", FALSE))
        /\ Return(Unhandled)
        /\ text' = text
     \/ /\ calls' = Append(calls, Call("chat.completions", TRUE))
        /\ \E content \in Contents : text' = Strip(content)
        /\ pc' = "doc" /\ resp' = resp
  /\ UNCHANGED <<handler, data, api_key, rows, i, doc_end, end_index, requests,
                 heading, body, sections, submitted>>

\* Lines 70-72: documents().get and the insertion offset
SingleGetDoc ==
  /\ handler = "single" /\ pc = "doc"
  /\ \/ /\ calls' = Append(calls, Call("documents.get", FALSE))
        /\ Return(Unhandled)
        /\ UNCHANGED <<doc_end, end_index>>
     \/ /\ calls' = Append(calls, Call("documents.get", TRUE))
        /\ doc_end' \in DocEndIndexes
        /\ end_index' = doc_end' - 1
        /\ pc' = "batch" /\ resp' = resp
  /\ UNCHANGED <<handler, data, api_key, rows, i, requests, text, heading, body,
                 sections, submitted>>

\* Lines 74-83: batchUpdate of one insertText, then the 200 response
SingleBatchUpdate ==
  /\ handler = "single" /\ pc = "batch"
  /\ submitted' = Append(submitted,
        <<InsertText(end_index, <<LF, LF>> \o text \o <<LF>>)>>)
  /\ \/ /\ calls' = Append(calls, Call("batchUpdate", FALSE))
        /\ Return(Unhandled)
     \/ /\ calls' = Append(calls, Call("batchUpdate", TRUE))
        /\ Return(JsonOk("RFP section inserted"))
  /\ UNCHANGED <<handler, data, api_key, locals>>

Next ==
  \/ Validate
  \/ ReadSheet
  \/ LoadIndex
  \/ GetDoc
  \/ NextRow
  \/ Search
  \/ Chat
  \/ SplitText
  \/ AppendNewline
  \/ AppendHeading
  \/ AppendBody
  \/ CheckBatch
  \/ BatchUpdate
  \/ SingleValidate
  \/ SingleLoadIndex
  \/ SingleSearch
  \/ SingleChat
  \/ SingleGetDoc
  \/ SingleBatchUpdate

Spec == Init /\ [][Next]_vars

\* ============================================================ properties
\* Vocabulary of the properties, written without the operators above (LF apart).
Multi == handler = "multi"

\* The initial end-of-document offset.
InitialOffset == doc_end - 1

IsInsert(op) == op.type = "insertText"

IsStyle(op) == op.type = "updateParagraphStyle"

Offset(op) == IF IsInsert(op) THEN op.index ELSE op.startIndex

\* Total length of the texts of the insertText operations among ops[1..n].
RECURSIVE InsertedLen(_, _)
InsertedLen(ops, n) ==
  IF n = 0 THEN 0
  ELSE InsertedLen(ops, n - 1) + (IF IsInsert(ops[n]) THEN Len(ops[n].text) ELSE 0)

\* A row with a requirement and a response, both non-empty.
HasBothFields(row) ==
  /\ row.Requirement # NoneVal /\ row.Requirement # ""
  /\ row.Response # NoneVal /\ row.Response # ""

\* Number of rows with both fields among rows[1..n].
RECURSIVE ValidRows(_)
ValidRows(n) ==
  IF n = 0 THEN 0
  ELSE ValidRows(n - 1) + (IF HasBothFields(rows[n]) THEN 1 ELSE 0)

\* Sum over the sections of 1 + len(h) + 1 + len(b) + 2.
RECURSIVE SectionsLen(_)
SectionsLen(secs) ==
  IF secs = <<>> THEN 0
  ELSE 1 + Len(Head(secs)[1]) + 1 + Len(Head(secs)[2]) + 2 + SectionsLen(Tail(secs))

\* The patch of the design for sections secs, starting at offset c.
RECURSIVE PatchOps(_, _)
PatchOps(c, secs) ==
  IF secs = <<>> THEN <<>>
  ELSE LET h == Head(secs)[1]
           b == Head(secs)[2]
       IN << [type |-> "insertText", index |-> c, text |-> <<LF>>],
             [type |-> "insertText", index |-> c + 1, text |-> h \o <<LF>>],
             [type |-> "updateParagraphStyle", startIndex |-> c + 1,
              endIndex |-> c + 1 + Len(h) + 1, namedStyleType |-> "HEADING_2"],
             [type |-> "insertText", index |-> c + Len(h) + 2,
              text |-> b \o <<LF, LF>>] >>
          \o PatchOps(c + Len(h) + Len(b) + 4, Tail(secs))

\* The loop is between two rows, or over.
BetweenRows == pc \in {"loop", "after", "batch"}

FailedCall(c) == ~c.ok

BatchCalls == {k \in 1..Len(calls) : calls[k].name = "batchUpdate"}

\* ------------------------------------------------------------------- C1
\* C1, as stated: in /multi the offset of every operation of the batch, the
\* startIndex of an updateParagraphStyle included, is the initial
\* end-of-document offset plus the length of the texts of all insertText
\* operations appended before it; offsets never decrease and no inserted
\* text starts inside one inserted before it.
C1_AsStated ==
  Multi =>
    \A k \in 1..Len(requests) :
      /\ Offset(requests[k]) = InitialOffset + InsertedLen(requests, k - 1)
      /\ k > 1 => Offset(requests[k - 1]) <= Offset(requests[k])
      /\ \A j \in 1..(k - 1) :
           (IsInsert(requests[j]) /\ IsInsert(requests[k]))
             => requests[j].index + Len(requests[j].text) <= requests[k].index

\* Offsets of the batch, by kind of operation.
C1_OffsetsInv ==
  Multi =>
    \A k \in 1..Len(requests) :
      /\ IsInsert(requests[k]) =>
           requests[k].index = InitialOffset + InsertedLen(requests, k - 1)
      /\ IsStyle(requests[k]) =>
           /\ k > 1
           /\ IsInsert(requests[k - 1])
           /\ requests[k].startIndex = requests[k - 1].index
           /\ requests[k].startIndex = InitialOffset + InsertedLen(requests, k - 2)
      /\ k > 1 => Offset(requests[k - 1]) <= Offset(requests[k])
      /\ \A j \in 1..(k - 1) :
           (IsInsert(requests[j]) /\ IsInsert(requests[k]))
             => requests[j].index + Len(requests[j].text) <= requests[k].index

\* Every step appends at the current cursor and never moves it back.
C1_CursorStep ==
  Multi =>
    /\ end_index' >= end_index
    /\ Len(requests') >= Len(requests)
    /\ SubSeq(requests', 1, Len(requests)) = requests
    /\ \A k \in (Len(requests) + 1)..Len(requests') :
         Offset(requests'[k]) = end_index

\* C1, amended: in /multi every operation is appended with the cursor value
\* of that moment as its offset; an insertText's index is the initial
\* end-of-document offset plus the length of all text inserted before it,
\* and an updateParagraphStyle's startIndex is the index of the heading
\* insertText appended just before it (whose text the cursor has not yet
\* passed); offsets never decrease, the cursor is never decremented, and no
\* inserted text starts inside one inserted before it.
C1_OffsetsFollowCursor == [](C1_OffsetsInv) /\ [][C1_CursorStep]_vars

C1_Witness ==
  /\ Multi /\ pc = "after" /\ Len(requests) = 8
  /\ Len(requests[2].text) > 1 /\ Len(requests[4].text) > 2
  /\ requests[7].startIndex = requests[6].index
  /\ requests[8].index > requests[5].index + 2

\* ------------------------------------------------------------------- C2
\* C2: in /multi every section's updateParagraphStyle comes right after the
\* insertText of heading + "\n", starts at that insertText's index and spans
\* len(heading) + 1 characters: exactly the heading just inserted, not the
\* blank line before it nor the body after it.
C2_StyleSpansHeading ==
  Multi =>
    /\ \A k \in 1..Len(requests) :
         IsStyle(requests[k]) =>
           /\ k > 2
           /\ IsInsert(requests[k - 1])
           /\ requests[k - 1].text = sections[(k + 1) \div 4][1] \o <<LF>>
           /\ requests[k].startIndex = requests[k - 1].index
           /\ requests[k].endIndex - requests[k].startIndex
                = Len(sections[(k + 1) \div 4][1]) + 1
           /\ requests[k].endIndex = requests[k].startIndex + Len(requests[k - 1].text)
           /\ requests[k - 2].index + Len(requests[k - 2].text) <= requests[k].startIndex
           /\ k < Len(requests) => requests[k].endIndex <= requests[k + 1].index
    /\ (BetweenRows \/ pc = "body") =>
         \A n \in 1..Len(sections) :
           /\ 4 * n - 1 <= Len(requests)
           /\ IsStyle(requests[4 * n - 1])

C2_Witness ==
  /\ Multi /\ pc = "after" /\ Len(requests) = 8
  /\ requests[3].endIndex - requests[3].startIndex = 2
  /\ requests[7].endIndex - requests[7].startIndex = 3
  /\ Len(requests[4].text) > 2

\* ------------------------------------------------------------------- C3
\* C3, as stated: once /multi has processed N valid sections, the cursor is
\* the initial offset plus the sum of 1 + len(h_i) + 1 + len(b_i) + 2 over
\* them; with initial offset 100, an 8-character heading and a 10-character
\* body it is 124.
C3_AsStated ==
  (Multi /\ BetweenRows) =>
    /\ Len(sections) = ValidRows(i - 1)
    /\ end_index = InitialOffset + SectionsLen(sections)
    /\ (InitialOffset = 100 /\ Len(sections) = 1
        /\ Len(sections[1][1]) = 8 /\ Len(sections[1][2]) = 10)
         => end_index = 124

\* C3, amended: once /multi has processed N valid sections, the cursor is
\* the initial offset plus the sum of 1 + len(h_i) + 1 + len(b_i) + 2 over
\* them; with initial offset 100, an 8-character heading and a 10-character
\* body it is 122.
C3_FinalCursor ==
  (Multi /\ BetweenRows) =>
    /\ Len(sections) = ValidRows(i - 1)
    /\ end_index = InitialOffset + SectionsLen(sections)
    /\ (InitialOffset = 100 /\ Len(sections) = 1
        /\ Len(sections[1][1]) = 8 /\ Len(sections[1][2]) = 10)
         => end_index = 122

C3_Witness ==
  /\ Multi /\ pc = "after"
  /\ InitialOffset = 100
  /\ sections = << <<SubSeq(ExampleContent, 1, 8), SubSeq(ExampleContent, 10, 19)>> >>
  /\ end_index = 122

\* ------------------------------------------------------------------- C4
\* C4: for N valid sections the batch of /multi holds exactly 4N operations:
\* per section, in row order and without interleaving, insertText "\n",
\* insertText heading + "\n", updateParagraphStyle HEADING_2, insertText
\* body + "\n\n".
C4_FourOpsPerSection ==
  (Multi /\ BetweenRows) =>
    /\ Len(sections) = ValidRows(i - 1)
    /\ Len(requests) = 4 * Len(sections)
    /\ \A n \in 1..Len(sections) :
         /\ IsInsert(requests[4 * n - 3])
         /\ requests[4 * n - 3].text = <<LF>>
         /\ IsInsert(requests[4 * n - 2])
         /\ requests[4 * n - 2].text = sections[n][1] \o <<LF>>
         /\ IsStyle(requests[4 * n - 1])
         /\ requests[4 * n - 1].namedStyleType = "HEADING_2"
         /\ IsInsert(requests[4 * n])
         /\ requests[4 * n].text = sections[n][2] \o <<LF, LF>>

C4_Witness ==
  /\ Multi /\ pc = "batch" /\ Len(rows) = 2 /\ Len(requests) = 8
  /\ sections[1] # sections[2]
  /\ sections[2][2] # <<>>

\* ------------------------------------------------------------------- C5
\* The step taken at a row that lacks a field.
C5_SkipStep ==
  (Multi /\ pc = "loop" /\ i <= Len(rows) /\ ~HasBothFields(rows[i])) =>
    /\ requests' = requests
    /\ end_index' = end_index
    /\ sections' = sections
    /\ calls' = calls
    /\ resp' = resp
    /\ pc' = "loop"
    /\ i' = i + 1

\* The batch and the cursor are those of the rows that have both fields.
C5_SameAsWithoutRow ==
  (Multi /\ BetweenRows) =>
    /\ Len(sections) = ValidRows(i - 1)
    /\ requests = PatchOps(InitialOffset, sections)
    /\ end_index = InitialOffset + SectionsLen(sections)

\* C5: in /multi a row whose Requirement or Response is missing or empty is
\* skipped without error, appending nothing and leaving the cursor alone, so
\* that the batch is the one the rows that have both fields produce by
\* themselves.
C5_SkippedRowsLeaveNoTrace == [](C5_SameAsWithoutRow) /\ [][C5_SkipStep]_vars

C5_Witness ==
  /\ Multi /\ pc = "after" /\ Len(rows) = 2
  /\ rows[1].Requirement = "R" /\ rows[1].Response = ""
  /\ HasBothFields(rows[2])
  /\ Len(requests) = 4
  /\ requests[1].index = InitialOffset

\* ------------------------------------------------------------------- C6
\* C6: in /multi a failed similarity_search or chat completion for a row
\* ends the request with HTTP 500: it is the last collaborator call, no
\* batchUpdate is made, nothing is submitted, and the batch holds only the
\* operations of the rows before it.
C6_RowFailureAbortsBatch ==
  Multi =>
    \A k \in 1..Len(calls) :
      (calls[k].name \in {"similarity_search", "chat.completions"}
         /\ FailedCall(calls[k])) =>
        /\ k = Len(calls)
        /\ pc = "done"
        /\ resp.status = 500 /\ resp.json
        /\ BatchCalls = {}
        /\ submitted = <<>>
        /\ i <= Len(rows)
        /\ Len(requests) = 4 * ValidRows(i - 1)

C6_Witness ==
  /\ Multi /\ pc = "done" /\ Len(rows) = 2 /\ i = 2
  /\ Len(requests) = 4
  /\ calls[Len(calls)] = [name |-> "chat.completions", ok |-> FALSE]
  /\ resp.msg = "OpenAI call failed"

\* ------------------------------------------------------------------- C7
\* C7: in /multi, when the sheet has no row with both fields, the request
\* ends with HTTP 400 "No valid rows to process" and batchUpdate is never
\* called.
C7_NoValidRows ==
  (Multi /\ \E k \in 1..Len(calls) : calls[k] = [name |-> "documents.get", ok |-> TRUE]
         /\ ValidRows(Len(rows)) = 0) =>
    /\ BatchCalls = {}
    /\ submitted = <<>>
    /\ pc # "batch"
    /\ pc = "done" =>
         resp = [status |-> 400, json |-> TRUE, msg |-> "No valid rows to process"]

C7_Witness ==
  /\ Multi /\ pc = "done" /\ Len(rows) = 2
  /\ ValidRows(Len(rows)) = 0
  /\ resp.status = 400 /\ resp.msg = "No valid rows to process"

\* ------------------------------------------------------------------- C8
\* C8: a /multi request calls batchUpdate at most once, after the document
\* was read and every row processed, with the whole batch of all valid rows;
\* it answers 200 only when that call was made and succeeded, and otherwise
\* either nothing was submitted or the answer is 500.
C8_SingleSubmission ==
  Multi =>
    /\ Cardinality(BatchCalls) <= 1
    /\ Len(submitted) = Cardinality(BatchCalls)
    /\ \A k \in BatchCalls :
         /\ k = Len(calls)
         /\ \E j \in 1..(k - 1) : calls[j] = [name |-> "documents.get", ok |-> TRUE]
         /\ i = Len(rows) + 1
         /\ submitted = <<requests>>
         /\ requests = PatchOps(InitialOffset, sections)
         /\ Len(sections) = ValidRows(Len(rows))
         /\ Len(sections) > 0
    /\ resp.status = 200 =>
         /\ BatchCalls # {}
         /\ calls[Len(calls)] = [name |-> "batchUpdate", ok |-> TRUE]
    /\ (pc = "done" /\ resp.status # 200) =>
         (submitted = <<>> \/ resp.status = 500)

C8_Witness ==
  /\ Multi /\ pc = "done" /\ resp.status = 200
  /\ Len(submitted) = 1 /\ Len(submitted[1]) = 8

\* ------------------------------------------------------------------- C9
\* C9: in both handlers every request ends with a JSON response, 200 on
\* success and otherwise 400 or 500 with an error message; a failed
\* collaborator call ends it with HTTP 500 and a JSON error message.
C9_AlwaysJsonResponse ==
  pc = "done" =>
    /\ resp.json
    /\ resp.status \in {200, 400, 500}
    /\ (\E k \in 1..Len(calls) : FailedCall(calls[k])) => resp.status = 500

\* ------------------------------------------------------------------ C10
\* C10: in both handlers a request without a JSON body or with a required
\* field missing (a body that is no object has none of them) is answered
\* 400, and a complete request made while OPENAI_API_KEY is unset is
\* answered 500, in each case with no collaborator call made; no call is
\* made before validation is over.
C10_ValidationFirst ==
  /\ pc = "validate" => calls = <<>>
  /\ (\/ data.kind \in {"none", "falsy", "nonobject"}
      \/ /\ data.kind = "object"
         /\ \E f \in {data.f1, data.f2, data.f3} : f = NoneVal \/ f = "") =>
       /\ calls = <<>> /\ submitted = <<>>
       /\ pc \in {"validate", "done"}
       /\ pc = "done" => (resp.status = 400 /\ resp.json)
  /\ (/\ data.kind = "object"
      /\ \A f \in {data.f1, data.f2, data.f3} : f # NoneVal /\ f # ""
      /\ ~api_key) =>
       /\ calls = <<>> /\ submitted = <<>>
       /\ pc \in {"validate", "done"}
       /\ pc = "done" => (resp.status = 500 /\ resp.json)

====
